---- MODULE Spec2Model ----
(***************************************************************************)
(* A model of the OpenAI PDF renamer.                                      *)
(*                                                                         *)
(*   Spec      the current script, src/openai_pdf_renamer.py               *)
(*   SpecV05   the script of version 0.5 (temp file, backup, final move),  *)
(*             src/old code/openai-pdf-renamer v0.5.py                     *)
(*   SpecFind  find_unique_pdf_path alone, over a set of directories       *)
(*   SpecRerun the current script run again over its own results           *)
(*   SpecClean clean_filename alone, over short strings                    *)
(*   SpecCrowded  the current script over a directory that holds a file    *)
(*             under a temporary name                                      *)
(*                                                                         *)
(* Text is a sequence of one-character strings, a file name is text, the   *)
(* directory is a function from the names in it to the files.              *)
(***************************************************************************)
EXTENDS Integers, Sequences, FiniteSets, TLC

VARIABLES
    fs,         \* the directory: file name -> [doc, meta, mtime]
    clock,      \* the time of the last file creation (st_mtime of new files)
    platform,   \* "posix" | "windows": what rename does to an existing target
    answer,     \* doc -> what the model answers for that document's text
    pdf_files,  \* the listing snapshot of the running batch
    idx,        \* the for loop's position in pdf_files (1-based)
    run,        \* how many times the batch was started
    pc,         \* the position in the code
    attempt,    \* query_llm_for_metadata: the loop variable
    metadata,   \* process_pdf: the record the inference returned
    newmeta,    \* the metadata written by the rewrite (writer.add_metadata)
    clean_base, \* process_pdf / rename_pdf: the cleaned base name
    new_path,   \* find_unique_pdf_path: the candidate being probed
    counter,    \* find_unique_pdf_path: the next suffix
    probed,     \* the candidates find_unique_pdf_path has probed, in order
    updated,    \* what update_pdf_metadata returned for this document
    others,     \* how many files the other pipeline instance has created
    text,       \* process_pdf: the document whose text was extracted
    before,     \* the directory when the processing of this document began
    result,     \* how the processing of the last document ended
    raced,      \* the other instance took new_path after it was found free
    given,      \* doc -> the name the first run of the batch gave it
    arg_raw,    \* clean_filename: the string it is called with
    arg_max_length, \* clean_filename: the maximum length it is called with
    returned    \* what clean_filename returned, call after call

vars == <<fs, clock, platform, answer, pdf_files, idx, run, pc, attempt,
          metadata, newmeta, clean_base, new_path, counter, probed, updated,
          others, text, before, result, raced, given, arg_raw,
          arg_max_length, returned>>

\* The variables of a call of clean_filename on its own
sanitizer == <<arg_raw, arg_max_length, returned>>

-----------------------------------------------------------------------------
(* Bounds of the model *)

\* the other pipeline instance creates at most this many files
MaxOther == 1
\* the batch is started at most this many times over one directory
MaxRuns == 2
\* the largest suffix of a file in the directories find_unique_pdf_path is
\* tried on
MaxSuffix == 3

-----------------------------------------------------------------------------
(* Text *)

Min(a, b) == IF a < b THEN a ELSE b

Rep(c, n) == [i \in 1..n |-> c]

UpperLetters == <<"A","B","C","D","E","F","G","H","I","J","K","L","M",
                  "N","O","P","Q","R","S","T","U","V","W","X","Y","Z">>
LowerLetters == <<"a","b","c","d","e","f","g","h","i","j","k","l","m",
                  "n","o","p","q","r","s","t","u","v","w","x","y","z">>

\* The lower-case letter of each upper-case letter, and the reverse
LowerOf ==
    [c \in {UpperLetters[i] : i \in DOMAIN UpperLetters} |->
        LowerLetters[CHOOSE i \in DOMAIN UpperLetters : UpperLetters[i] = c]]
UpperOf ==
    [c \in {LowerLetters[i] : i \in DOMAIN LowerLetters} |->
        UpperLetters[CHOOSE i \in DOMAIN LowerLetters : LowerLetters[i] = c]]

\* str.lower(), one character
LowerChar(c) == IF c \in DOMAIN LowerOf THEN LowerOf[c] ELSE c

\* str.upper(), one character
UpperChar(c) == IF c \in DOMAIN UpperOf THEN UpperOf[c] ELSE c

Lower(s) == [i \in DOMAIN s |-> LowerChar(s[i])]
Upper(s) == [i \in DOMAIN s |-> UpperChar(s[i])]

Whitespace == {" ", "\t", "\n"}

\* str.strip(): leading and trailing whitespace removed
Strip(s) ==
    IF \A i \in DOMAIN s : s[i] \in Whitespace THEN <<>>
    ELSE LET lo == CHOOSE i \in DOMAIN s :
                       /\ s[i] \notin Whitespace
                       /\ \A j \in 1..(i - 1) : s[j] \in Whitespace
             hi == CHOOSE i \in DOMAIN s :
                       /\ s[i] \notin Whitespace
                       /\ \A j \in (i + 1)..Len(s) : s[j] \in Whitespace
         IN  SubSeq(s, lo, hi)

Digits == {"0","1","2","3","4","5","6","7","8","9"}

\* str.isdigit()
IsDigit(s) == Len(s) > 0 /\ \A i \in DOMAIN s : s[i] \in Digits

DigitChars == <<"0","1","2","3","4","5","6","7","8","9">>

\* str(n) for a natural number
RECURSIVE NatStr(_)
NatStr(n) ==
    IF n < 10 THEN <<DigitChars[n + 1]>>
    ELSE NatStr(n \div 10) \o <<DigitChars[(n % 10) + 1]>>

\* s.endswith(t)
EndsWith(s, t) ==
    Len(s) >= Len(t) /\ SubSeq(s, Len(s) - Len(t) + 1, Len(s)) = t

\* The characters a sequence keeps, in order (re.sub(pattern, '', s))
Remove(s, bad) == SelectSeq(s, LAMBDA c : c \notin bad)

\* "u6f22" stands for the one character U+6F22, three bytes in UTF-8, the
\* file system's encoding; every other character of the model is one byte
Wide == {"u6f22"}
ByteLen(s) == Len(s) + 2 * Cardinality({i \in DOMAIN s : s[i] \in Wide})

-----------------------------------------------------------------------------
(* The model's answer: a JSON object with author, title and pubdate *)

\* A JSON value: text, a number or null (v is what str() gives for it), or
\* no value at all (the key is not in the object)
StrV(s) == [t |-> "str", v |-> s]
IntV(s) == [t |-> "int", v |-> s]
Absent == [t |-> "absent", v |-> <<>>]

\* dict.get(key, default)
Get(m, key, default) == IF m[key].t = "absent" THEN default ELSE m[key]

\* bool(dict): an empty object is falsy
Truthy(m) == \E k \in DOMAIN m : m[k].t # "absent"

Dict(a, t, p) == [author |-> a, title |-> t, pubdate |-> p]

tIMF == <<"I","M","F">>
tGlobalOutlook == <<"G","l","o","b","a","l"," ","O","u","t","l","o","o","k">>
tVarious == <<"V","a","r","i","o","u","s">>
tAnnualReport == <<"A","n","n","u","a","l"," ","R","e","p","o","r","t">>
tUnknown == <<"U","n","k","n","o","w","n">>
tunknown == <<"u","n","k","n","o","w","n">>
tvarious == <<"v","a","r","i","o","u","s">>
tUNKNOWN == <<"U","N","K","N","O","W","N">>
tVARIOUS == <<"V","A","R","I","O","U","S">>
tPaddedUnknown == <<" ","U","n","k","n","o","w","n"," ">>
tWhat == <<"W","h","a","t","?">>
t2020 == <<"2","0","2","0">>
tNoDate == <<"n",".","d",".">>
\* a title of 90 characters of three bytes each
tLongTitle == Rep("u6f22", 90)

\* What the model may answer for a document: an object, text that is no
\* JSON, or JSON that is no object
Object(m) == [kind |-> "object", val |-> m]
Garbage == [kind |-> "garbage", val |-> Dict(Absent, Absent, Absent)]
NotAnObject == [kind |-> "list", val |-> Dict(Absent, Absent, Absent)]

mGood == Dict(StrV(tIMF), StrV(tGlobalOutlook), StrV(t2020))
mVarious == Dict(StrV(tVarious), StrV(tAnnualReport), StrV(t2020))
mUnknownTitle == Dict(StrV(tIMF), StrV(tUnknown), StrV(t2020))
mUnknownAuthor == Dict(StrV(tUNKNOWN), StrV(tGlobalOutlook), StrV(t2020))
mPadded == Dict(StrV(tIMF), StrV(tPaddedUnknown), StrV(t2020))
mMarks == Dict(StrV(tIMF), StrV(tWhat), StrV(tNoDate))
mNoTitle == Dict(StrV(tIMF), Absent, StrV(t2020))
mNoDate == Dict(StrV(tIMF), StrV(tGlobalOutlook), Absent)
mIntDate == Dict(StrV(tIMF), StrV(tGlobalOutlook), IntV(t2020))
mIntTitle == Dict(StrV(tIMF), IntV(t2020), StrV(t2020))
mEmpty == Dict(Absent, Absent, Absent)
mLong == Dict(StrV(tIMF), StrV(tLongTitle), StrV(t2020))

Answers ==
    { Object(m) : m \in { mGood, mVarious, mUnknownTitle, mUnknownAuthor,
                          mPadded, mMarks, mNoTitle, mNoDate, mIntDate,
                          mIntTitle, mEmpty, mLong } }
    \cup {Garbage, NotAnObject}

NoMetadata == Dict(Absent, Absent, Absent)

\* str(datetime.now().year)
CurrentYear == <<"2","0","2","4">>

-----------------------------------------------------------------------------
(* src/openai_pdf_renamer.py: the pure parts *)

\* The characters re.sub(r'[\/:*?"<>|]', '', raw) removes
Forbidden == {"/", ":", "*", "?", "\"", "<", ">", "|"}

\* The default of max_length
DefaultMaxLength == 128

\* A clean_filename that does not cut the name
clean_filename_uncut(raw, max_length) ==
    Strip(Remove(raw, Forbidden))

\* A clean_filename that strips the whitespace before it cuts the name
clean_filename_strip_first(raw, max_length) ==
    LET name == Strip(Remove(raw, Forbidden))
    IN  SubSeq(name, 1, Min(max_length, Len(name)))

clean_filename(raw, max_length) ==
    LET name == Remove(raw, Forbidden)
    IN  Strip(SubSeq(name, 1, Min(max_length, Len(name))))

\* A field check that leaves "various" out of the author's sentinels
FieldCheckNoVarious(ans) ==
    IF ans.kind # "object" THEN "raise"
    ELSE LET title == Get(ans.val, "title", StrV(<<>>))
             author == Get(ans.val, "author", StrV(<<>>))
         IN  IF title.t # "str" THEN "raise"
             ELSE IF Lower(Strip(title.v)) = tunknown THEN "none"
             ELSE IF author.t # "str" THEN "raise"
             ELSE IF Lower(Strip(author.v)) \in {tunknown} THEN "none"
             ELSE "return"

\* query_llm_for_metadata, what it does with one parsed answer:
\* "raise" (caught by the loop's except), "none" (return None) or "return"
FieldCheck(ans) ==
    IF ans.kind # "object" THEN "raise"
    ELSE LET title == Get(ans.val, "title", StrV(<<>>))
             author == Get(ans.val, "author", StrV(<<>>))
         IN  IF title.t # "str" THEN "raise"
             ELSE IF Lower(Strip(title.v)) = tunknown THEN "none"
             ELSE IF author.t # "str" THEN "raise"
             ELSE IF Lower(Strip(author.v)) \in {tunknown, tvarious} THEN "none"
             ELSE "return"

\* The number of attempts of query_llm_for_metadata (retries: int = 2)
Retries == 2

\* process_pdf: f"{author} - {title} ({pubdate})"
BaseName(m) ==
    LET author == Get(m, "author", StrV(tUnknown))
        title == Get(m, "title", StrV(tUnknown))
        pubdate == Get(m, "pubdate", StrV(CurrentYear))
    IN  author.v \o <<" ","-"," ">> \o title.v \o <<" ","(">> \o pubdate.v \o <<")">>

\* update_pdf_metadata: whether building the metadata raises (pubdate.isdigit()
\* of a value that is no text)
MetadataRaises(m) == Get(m, "pubdate", StrV(CurrentYear)).t # "str"

\* update_pdf_metadata: the /Title, /Author and /CreationDate it writes
NewMetadata(m) ==
    LET author == Get(m, "author", StrV(tUnknown))
        title == Get(m, "title", StrV(tUnknown))
        pubdate == Get(m, "pubdate", StrV(CurrentYear))
        year == IF IsDigit(pubdate.v) THEN pubdate.v ELSE CurrentYear
    IN  [state |-> "rewritten",
         Title |-> clean_filename(title.v, DefaultMaxLength),
         Author |-> clean_filename(author.v, DefaultMaxLength),
         CreationDate |-> <<"D",":">> \o year
                          \o <<"0","1","0","1","0","0","0","0","0","0","Z">>]

-----------------------------------------------------------------------------
(* Files and names *)

\* The metadata of a document nobody has rewritten, and of a file whose
\* writing stopped half way
Original == [state |-> "original", Title |-> <<>>, Author |-> <<>>,
             CreationDate |-> <<>>]
Partial == [state |-> "partial", Title |-> <<>>, Author |-> <<>>,
            CreationDate |-> <<>>]

File(d, m, t) == [doc |-> d, meta |-> m, mtime |-> t]

Exists(name) == name \in DOMAIN fs

PdfExt == <<".","p","d","f">>

\* Path.with_suffix(suffix): the name with its last suffix replaced
WithSuffix(name, suffix) ==
    LET dots == {i \in DOMAIN name : name[i] = "."}
        last == IF dots = {} THEN 0
                ELSE CHOOSE i \in dots : \A j \in dots : j <= i
    IN  IF last > 1 /\ last < Len(name)
        THEN SubSeq(name, 1, last - 1) \o suffix
        ELSE name \o suffix

\* A rewrite that writes over the source itself instead of a temporary file
TempPathInPlace(src) == src

\* update_pdf_metadata: src.with_suffix('.temp.pdf')
TempPath(src) == WithSuffix(src, <<".","t","e","m","p",".","p","d","f">>)

\* A resolver whose suffixes begin at 2
CandidateFromTwo(base, k) ==
    IF k = 0 THEN base \o PdfExt
    ELSE base \o <<"_">> \o NatStr(k + 1) \o PdfExt

\* find_unique_pdf_path: the candidate with suffix k (k = 0: no suffix)
Candidate(base, k) ==
    IF k = 0 THEN base \o PdfExt
    ELSE base \o <<"_">> \o NatStr(k) \o PdfExt

\* The longest file name, in bytes, the file system takes (NAME_MAX)
NameMax == 255

\* Path.exists() raises OSError (ENAMETOOLONG) instead of answering
ExistsRaises(name) == platform = "posix" /\ ByteLen(name) > NameMax

\* The file system with src moved to dst (an existing dst is replaced)
Moved(dir, src, dst) ==
    [n \in (DOMAIN dir \ {src}) \cup {dst} |-> IF n = dst THEN dir[src] ELSE dir[n]]

\* The file system with a file written at name
Written(dir, name, f) ==
    [n \in DOMAIN dir \cup {name} |-> IF n = name THEN f ELSE dir[n]]

Removed(dir, name) == [n \in DOMAIN dir \ {name} |-> dir[n]]

\* sorted(..., key=st_mtime, reverse=True) of a set of names of the directory
RECURSIVE ByMtimeDesc(_, _)
ByMtimeDesc(dir, names) ==
    IF names = {} THEN <<>>
    ELSE LET n == CHOOSE x \in names : \A y \in names : dir[y].mtime <= dir[x].mtime
         IN  <<n>> \o ByMtimeDesc(dir, names \ {n})

\* main: sorted(directory.glob("*.pdf"), key=lambda p: p.stat().st_mtime, reverse=True)
Listing(dir) == ByMtimeDesc(dir, {n \in DOMAIN dir : EndsWith(n, PdfExt)})

-----------------------------------------------------------------------------
(* The directories and documents the batch starts from *)

Docs == {"dA", "dB"}

\* The documents of the other instance, in the order it renames them
OtherDocs == <<"o1", "o2", "o3">>
AllDocs == Docs \cup {OtherDocs[i] : i \in DOMAIN OtherDocs}

\* The answers before the other instance has brought any document
InitAnswers ==
    {a \in [AllDocs -> Answers] : \A d \in AllDocs \ Docs : a[d] = Garbage}

\* The directories of the initial states: a.pdf alone, or a.pdf and b.pdf
InitDirs ==
    LET a == <<"a">> \o PdfExt
        b == <<"b">> \o PdfExt
    IN  { [n \in {a} |-> File("dA", Original, 2)],
          [n \in {a, b} |-> IF n = a THEN File("dA", Original, 2)
                            ELSE File("dB", Original, 1)] }

\* Nothing is being processed
NoName == <<>>

\* clean_filename is not being called on its own
NoCall ==
    /\ arg_raw = NoName
    /\ arg_max_length = DefaultMaxLength
    /\ returned = <<>>

Idle ==
    /\ attempt = 0
    /\ metadata = NoMetadata
    /\ newmeta = Original
    /\ clean_base = NoName
    /\ new_path = NoName
    /\ counter = 0
    /\ probed = <<>>
    /\ updated = FALSE
    /\ text = "none"

Init ==
    /\ fs \in InitDirs
    /\ clock = 2
    /\ platform \in {"posix", "windows"}
    /\ answer \in InitAnswers
    /\ pdf_files = Listing(fs)
    /\ idx = 1
    /\ run = 1
    /\ pc = "loop"
    /\ Idle
    /\ others = 0
    /\ before = fs
    /\ result = "none"
    /\ raced = FALSE
    /\ given = [d \in Docs |-> NoName]
    /\ NoCall

-----------------------------------------------------------------------------
(* src/openai_pdf_renamer.py: main and process_pdf, step by step *)

\* The document of the loop's current iteration
pdf_path == pdf_files[idx]

\* process_pdf returns to main's loop, which takes the next file
Return(r) ==
    /\ pc' = "loop"
    /\ idx' = idx + 1
    /\ result' = r

\* main: for pdf_path in pdf_files, and "Finished processing all PDFs!"
NextPdf ==
    /\ UNCHANGED sanitizer
    /\ pc = "loop"
    /\ IF idx <= Len(pdf_files)
       THEN /\ pc' = "extract"
            /\ before' = fs
            /\ attempt' = 0
            /\ metadata' = NoMetadata
            /\ newmeta' = Original
            /\ clean_base' = NoName
            /\ new_path' = NoName
            /\ counter' = 0
            /\ probed' = <<>>
            /\ updated' = FALSE
            /\ text' = "none"
            /\ result' = "none"
            /\ raced' = FALSE
       ELSE /\ pc' = "finished"
            /\ UNCHANGED <<before, attempt, metadata, newmeta, clean_base,
                           new_path, counter, probed, updated, text, result,
                           raced>>
    /\ UNCHANGED <<fs, clock, platform, given, answer, pdf_files, idx, run,
                   others>>

\* extract_text_from_pdf: the text, or None when the file cannot be read or
\* holds no text
ExtractText ==
    /\ UNCHANGED sanitizer
    /\ pc = "extract"
    /\ \/ /\ Exists(pdf_path)
          /\ text' = fs[pdf_path].doc
          /\ pc' = "query"
          /\ UNCHANGED <<idx, result>>
       \/ /\ Return("no_text")
          /\ UNCHANGED text
    /\ UNCHANGED <<fs, clock, platform, given, answer, pdf_files, run, attempt,
                   metadata, newmeta, clean_base, new_path, counter, probed,
                   updated, others, raced, before>>

\* A failed attempt after which the loop never gives up
AttemptFailedNoReturn ==
    /\ attempt' = attempt + 1
    /\ UNCHANGED <<pc, idx, result>>
    /\ UNCHANGED <<metadata, clean_base>>

\* query_llm_for_metadata: one failed attempt (the except branch), and the
\* return None after the loop
AttemptFailed ==
    /\ attempt' = attempt + 1
    /\ IF attempt + 1 < Retries
       THEN UNCHANGED <<pc, idx, result>>
       ELSE Return("no_metadata")
    /\ UNCHANGED <<metadata, clean_base>>

\* One attempt that opens the temporary file before the answer is tested, so
\* that a rejected answer leaves it behind
QueryLlmTempFirst ==
    /\ UNCHANGED sanitizer
    /\ pc = "query"
    /\ attempt < Retries
    /\ \/ /\ AttemptFailed
          /\ UNCHANGED fs
       \/ /\ FieldCheck(answer[text]) = "raise"
          /\ AttemptFailed
          /\ UNCHANGED fs
       \/ /\ FieldCheck(answer[text]) = "none"
          /\ fs' = Written(fs, TempPath(pdf_path), File(text, Partial, clock))
          /\ Return("no_metadata")
          /\ UNCHANGED <<attempt, metadata, clean_base>>
       \/ /\ FieldCheck(answer[text]) = "return"
          /\ UNCHANGED fs
          /\ IF Truthy(answer[text].val)
             THEN /\ metadata' = answer[text].val
                  /\ clean_base' = clean_filename(BaseName(answer[text].val),
                                                  DefaultMaxLength)
                  /\ pc' = "update_read"
                  /\ UNCHANGED <<attempt, idx, result>>
             ELSE /\ Return("no_metadata")
                  /\ UNCHANGED <<attempt, metadata, clean_base>>
    /\ UNCHANGED <<clock, platform, given, answer, pdf_files, run, newmeta,
                   new_path, counter, probed, updated, others, raced, text, before>>

\* query_llm_for_metadata, one attempt of its loop, and the test of its
\* result in process_pdf
QueryLlm ==
    /\ UNCHANGED sanitizer
    /\ pc = "query"
    /\ attempt < Retries
    /\ \/ AttemptFailed                       \* the call raises
       \/ /\ FieldCheck(answer[text]) = "raise"
          /\ AttemptFailed
       \/ /\ FieldCheck(answer[text]) = "none"
          /\ Return("no_metadata")
          /\ UNCHANGED <<attempt, metadata, clean_base>>
       \/ /\ FieldCheck(answer[text]) = "return"
          /\ IF Truthy(answer[text].val)
             THEN /\ metadata' = answer[text].val
                  /\ clean_base' = clean_filename(BaseName(answer[text].val),
                                                  DefaultMaxLength)
                  /\ pc' = "update_read"
                  /\ UNCHANGED <<attempt, idx, result>>
             ELSE /\ Return("no_metadata")
                  /\ UNCHANGED <<attempt, metadata, clean_base>>
    /\ UNCHANGED <<fs, clock, platform, given, answer, pdf_files, run, newmeta,
                   new_path, counter, probed, updated, others, raced, text, before>>

\* update_pdf_metadata returns (True or False) and rename_pdf begins:
\* find_unique_pdf_path's first candidate
UpdateReturns(ok) ==
    /\ updated' = ok
    /\ pc' = "find"
    /\ new_path' = Candidate(clean_base, 0)
    /\ counter' = 1

\* update_pdf_metadata: the source is read and the metadata built
UpdateRead ==
    /\ UNCHANGED sanitizer
    /\ pc = "update_read"
    /\ \/ /\ Exists(pdf_path)
          /\ ~MetadataRaises(metadata)
          /\ newmeta' = NewMetadata(metadata)
          /\ pc' = "update_open"
          /\ UNCHANGED <<updated, new_path, counter>>
       \/ /\ UpdateReturns(FALSE)
          /\ UNCHANGED newmeta
    /\ UNCHANGED <<fs, clock, platform, given, answer, pdf_files, idx, run, attempt,
                   metadata, clean_base, probed, others, raced, text, before, result>>

\* update_pdf_metadata: open(temp_path, 'wb')
UpdateOpen ==
    /\ UNCHANGED sanitizer
    /\ pc = "update_open"
    /\ \/ /\ fs' = Written(fs, TempPath(pdf_path), File(text, Partial, clock + 1))
          /\ clock' = clock + 1
          /\ pc' = "update_write"
          /\ UNCHANGED <<updated, new_path, counter>>
       \/ /\ UpdateReturns(FALSE)
          /\ UNCHANGED <<fs, clock>>
    /\ UNCHANGED <<platform, given, answer, pdf_files, idx, run, attempt, metadata,
                   newmeta, clean_base, probed, others, raced, text, before, result>>

\* update_pdf_metadata: writer.write(f)
UpdateWrite ==
    /\ UNCHANGED sanitizer
    /\ pc = "update_write"
    /\ \/ /\ fs' = Written(fs, TempPath(pdf_path), File(text, newmeta, clock))
          /\ pc' = "update_replace"
          /\ UNCHANGED <<updated, new_path, counter>>
       \/ /\ UpdateReturns(FALSE)
          /\ UNCHANGED fs
    /\ UNCHANGED <<clock, platform, given, answer, pdf_files, idx, run, attempt,
                   metadata, newmeta, clean_base, probed, others, raced, text, before,
                   result>>

\* update_pdf_metadata: temp_path.replace(src)
UpdateReplace ==
    /\ UNCHANGED sanitizer
    /\ pc = "update_replace"
    /\ \/ /\ fs' = Moved(fs, TempPath(pdf_path), pdf_path)
          /\ UpdateReturns(TRUE)
       \/ /\ UpdateReturns(FALSE)
          /\ UNCHANGED fs
    /\ UNCHANGED <<clock, platform, given, answer, pdf_files, idx, run, attempt,
                   metadata, newmeta, clean_base, probed, others, raced, text, before,
                   result>>

\* find_unique_pdf_path: one test of new_path.exists()
FindUnique ==
    /\ UNCHANGED sanitizer
    /\ pc = "find"
    /\ probed' = Append(probed, new_path)
    /\ IF ExistsRaises(new_path)
       THEN /\ pc' = "aborted"
            /\ UNCHANGED <<new_path, counter>>
       ELSE IF Exists(new_path)
       THEN /\ new_path' = Candidate(clean_base, counter)
            /\ counter' = counter + 1
            /\ UNCHANGED pc
       ELSE /\ pc' = "rename"
            /\ UNCHANGED <<new_path, counter>>
    /\ UNCHANGED <<fs, clock, platform, given, answer, pdf_files, idx, run, attempt,
                   metadata, newmeta, clean_base, updated, others, raced, text,
                   before, result>>

\* Whether the operating system lets src be renamed to dst
CanRename(src, dst) ==
    /\ Exists(src)
    /\ platform = "windows" => ~Exists(dst)

\* rename_pdf: pdf_path.rename(dest_path)
RenamePdf ==
    /\ UNCHANGED sanitizer
    /\ pc = "rename"
    /\ \/ /\ CanRename(pdf_path, new_path)
          /\ fs' = Moved(fs, pdf_path, new_path)
          /\ given' = IF run = 1 /\ text \in DOMAIN given
                      THEN [given EXCEPT ![text] = new_path] ELSE given
          /\ Return("renamed")
       \/ /\ Return("rename_failed")
          /\ UNCHANGED <<fs, given>>
    /\ UNCHANGED <<clock, platform, answer, pdf_files, run, attempt, metadata,
                   newmeta, clean_base, new_path, counter, probed, updated,
                   others, raced, text, before>>

\* Another instance of the script, working on the same directory, renames a
\* file of its own to the name this instance is about to take (its document
\* got the answer this instance's document got)
OtherInstance ==
    /\ UNCHANGED sanitizer
    /\ pc \in {"find", "rename"}
    /\ others < MaxOther
    /\ ~Exists(new_path)
    /\ ~ExistsRaises(new_path)
    /\ fs' = Written(fs, new_path, File(OtherDocs[others + 1], Original, clock + 1))
    /\ answer' = [answer EXCEPT ![OtherDocs[others + 1]] = answer[text]]
    /\ clock' = clock + 1
    /\ others' = others + 1
    /\ raced' = (raced \/ pc = "rename")
    /\ UNCHANGED <<platform, given, pdf_files, idx, run, pc, attempt,
                   metadata, newmeta, clean_base, new_path, counter, probed,
                   updated, text, before, result>>

\* main is started again over the same directory
Restart ==
    /\ UNCHANGED sanitizer
    /\ pc = "finished"
    /\ run < MaxRuns
    /\ run' = run + 1
    /\ pdf_files' = Listing(fs)
    /\ idx' = 1
    /\ pc' = IF Listing(fs) = <<>> THEN "finished" ELSE "loop"
    /\ UNCHANGED <<fs, clock, platform, given, answer, attempt, metadata, newmeta,
                   clean_base, new_path, counter, probed, updated, others, raced,
                   text, before, result>>

Next ==
    \/ NextPdf
    \/ ExtractText
    \/ QueryLlm
    \/ UpdateRead
    \/ UpdateOpen
    \/ UpdateWrite
    \/ UpdateReplace
    \/ FindUnique
    \/ RenamePdf
    \/ OtherInstance

Spec == Init /\ [][Next]_vars

-----------------------------------------------------------------------------
(* The batch run again over the directory it has already worked on *)

\* The answers of the reruns
RerunAnswers == {Object(mGood), Object(mMarks), Object(mVarious), Garbage}

\* The reruns start from the directories of one document
InitRerun ==
    /\ Init
    /\ Cardinality(DOMAIN fs) = 1
    /\ \A d \in Docs : answer[d] \in RerunAnswers

NextRerun ==
    \/ NextPdf
    \/ ExtractText
    \/ QueryLlm
    \/ UpdateRead
    \/ UpdateOpen
    \/ UpdateWrite
    \/ UpdateReplace
    \/ FindUnique
    \/ RenamePdf
    \/ Restart

SpecRerun == InitRerun /\ [][NextRerun]_vars

-----------------------------------------------------------------------------
(* src/old code/openai-pdf-renamer v0.5.py, step by step *)

\* The characters re.sub(r"[^\w\s\(\)\-\&]", "", s) keeps
KeptV05 ==
    {UpperLetters[i] : i \in DOMAIN UpperLetters}
    \cup {LowerLetters[i] : i \in DOMAIN LowerLetters}
    \cup Digits \cup {"_"} \cup Wide \cup Whitespace \cup {"(", ")", "-", "&"}

\* The length validate_and_trim_filename cuts to
MaxLengthV05 == 200

validate_and_trim_filename(initial_filename) ==
    LET cleaned == SelectSeq(initial_filename, LAMBDA c : c \in KeptV05)
    IN  SubSeq(cleaned, 1, Min(MaxLengthV05, Len(cleaned)))

\* rename_pdf_based_on_title, from json.loads to the guessed name: "go",
\* "unreliable" (a sentinel), "parse_error" (JSONDecodeError or KeyError,
\* caught) or "raise" (any other exception, which nothing catches)
ParseV05(ans) ==
    IF ans.kind = "garbage" THEN "parse_error"
    ELSE IF ans.kind # "object" THEN "raise"
    ELSE LET m == ans.val
         IN  IF m.title.t = "absent" THEN "parse_error"
             ELSE IF m.title.t # "str" THEN "raise"
             ELSE IF Upper(m.title.v) = tUNKNOWN THEN "unreliable"
             ELSE IF m.author.t = "absent" THEN "parse_error"
             ELSE IF m.author.t # "str" THEN "raise"
             ELSE IF Upper(m.author.v) \in {tVARIOUS, tUNKNOWN} THEN "unreliable"
             ELSE IF m.pubdate.t = "absent" THEN "parse_error"
             ELSE "go"

\* f"{author} - {title} ({str(pubdate)})"
GuessedName(m) ==
    m.author.v \o <<" ","-"," ">> \o m.title.v \o <<" ","(">> \o m.pubdate.v
        \o <<")">>

\* clean_name without its extension: os.path.splitext(clean_name)[0]
CleanBaseV05(m) ==
    LET clean_name == validate_and_trim_filename(GuessedName(m))
    IN  IF EndsWith(Lower(clean_name), PdfExt)
        THEN SubSeq(clean_name, 1, Len(clean_name) - Len(PdfExt))
        ELSE clean_name

\* The /Title, /Author and /CreationDate of version 0.5
NewMetadataV05(m) ==
    [state |-> "rewritten",
     Title |-> validate_and_trim_filename(m.title.v),
     Author |-> validate_and_trim_filename(m.author.v),
     CreationDate |-> m.pubdate.v]

\* pdf_path + ".temp" and pdf_path + ".bak"
TempV05(path) == path \o <<".","t","e","m","p">>
BackupV05(path) == path \o <<".","b","a","k">>

\* [f for f in os.listdir(directory) if f.lower().endswith(".pdf")], sorted
ListingV05(dir) ==
    ByMtimeDesc(dir, {n \in DOMAIN dir : EndsWith(Lower(n), PdfExt)})

InitV05 ==
    /\ Init
    /\ pdf_files = ListingV05(fs)

\* What no step of version 0.5 changes
fixedV05 ==
    <<platform, pdf_files, run, given, attempt, updated, counter, sanitizer>>

\* rename_pdfs_in_directory: for filename in pdf_files
V05NextPdf ==
    /\ pc = "loop"
    /\ IF idx <= Len(pdf_files)
       THEN /\ pc' = "v_extract"
            /\ before' = fs
            /\ metadata' = NoMetadata
            /\ newmeta' = Original
            /\ clean_base' = NoName
            /\ new_path' = NoName
            /\ probed' = <<>>
            /\ text' = "none"
            /\ result' = "none"
            /\ raced' = FALSE
       ELSE /\ pc' = "finished"
            /\ UNCHANGED <<before, metadata, newmeta, clean_base, new_path,
                           probed, text, result, raced>>
    /\ UNCHANGED <<fixedV05, fs, clock, answer, idx, others>>

\* extract_text_from_pdf of version 0.5
V05Extract ==
    /\ pc = "v_extract"
    /\ \/ /\ Exists(pdf_path)
          /\ text' = fs[pdf_path].doc
          /\ pc' = "v_guess"
          /\ UNCHANGED <<idx, result>>
       \/ /\ Return("no_text")
          /\ UNCHANGED text
    /\ UNCHANGED <<fixedV05, fs, clock, answer, metadata, newmeta, clean_base,
                   new_path, probed, others, before, raced>>

\* llm_guess: the answer's text, or None when the call raises
V05Guess ==
    /\ pc = "v_guess"
    /\ \/ /\ pc' = "v_parse"
          /\ UNCHANGED <<idx, result>>
       \/ Return("api_failed")
    /\ UNCHANGED <<fixedV05, fs, clock, answer, metadata, newmeta, clean_base,
                   new_path, probed, others, text, before, raced>>

\* json.loads, the sentinel test and the names
V05Parse ==
    /\ UNCHANGED sanitizer
    /\ pc = "v_parse"
    /\ LET how == ParseV05(answer[text])
       IN  IF how = "go"
           THEN /\ metadata' = answer[text].val
                /\ clean_base' = CleanBaseV05(answer[text].val)
                /\ new_path' = Candidate(CleanBaseV05(answer[text].val), 0)
                /\ pc' = "v_find"
                /\ UNCHANGED <<idx, result>>
           ELSE IF how = "raise"
           THEN /\ pc' = "aborted"
                /\ UNCHANGED <<metadata, clean_base, new_path, idx, result>>
           ELSE /\ Return(how)
                /\ UNCHANGED <<metadata, clean_base, new_path>>
    /\ UNCHANGED <<platform, pdf_files, run, given, attempt, updated, fs,
                   clock, answer, newmeta, probed, others, text, before, raced>>
    /\ counter' = 1

\* while os.path.exists(new_file_path): one test
V05Find ==
    /\ UNCHANGED sanitizer
    /\ pc = "v_find"
    /\ probed' = Append(probed, new_path)
    /\ IF Exists(new_path)
       THEN /\ new_path' = Candidate(clean_base, counter)
            /\ counter' = counter + 1
            /\ UNCHANGED pc
       ELSE /\ pc' = "v_read"
            /\ UNCHANGED <<new_path, counter>>
    /\ UNCHANGED <<platform, pdf_files, run, given, attempt, updated, fs,
                   clock, answer, metadata, newmeta, clean_base, idx, others,
                   text, before, result, raced>>

\* PdfReader, add_page and add_metadata (which raises on a pubdate that is
\* no text)
V05Read ==
    /\ pc = "v_read"
    /\ \/ /\ Exists(pdf_path)
          /\ metadata.pubdate.t = "str"
          /\ newmeta' = NewMetadataV05(metadata)
          /\ pc' = "v_open"
          /\ UNCHANGED <<idx, result>>
       \/ /\ Return("read_failed")
          /\ UNCHANGED newmeta
    /\ UNCHANGED <<fixedV05, fs, clock, answer, metadata, clean_base,
                   new_path, probed, others, text, before, raced>>

\* open(temp_pdf_path, "wb")
V05Open ==
    /\ pc = "v_open"
    /\ \/ /\ fs' = Written(fs, TempV05(pdf_path), File(text, Partial, clock + 1))
          /\ clock' = clock + 1
          /\ pc' = "v_write"
          /\ UNCHANGED <<idx, result>>
       \/ /\ Return("open_failed")
          /\ UNCHANGED <<fs, clock>>
    /\ UNCHANGED <<fixedV05, answer, metadata, newmeta, clean_base, new_path,
                   probed, others, text, before, raced>>

\* writer.write(f)
V05Write ==
    /\ pc = "v_write"
    /\ \/ /\ fs' = Written(fs, TempV05(pdf_path), File(text, newmeta, clock))
          /\ pc' = "v_backup"
          /\ UNCHANGED <<idx, result>>
       \/ /\ Return("write_failed")
          /\ UNCHANGED fs
    /\ UNCHANGED <<fixedV05, clock, answer, metadata, newmeta, clean_base,
                   new_path, probed, others, text, before, raced>>

\* os.rename(pdf_path, pdf_path + ".bak")
V05Backup ==
    /\ pc = "v_backup"
    /\ \/ /\ CanRename(pdf_path, BackupV05(pdf_path))
          /\ fs' = Moved(fs, pdf_path, BackupV05(pdf_path))
          /\ pc' = "v_final"
          /\ UNCHANGED <<idx, result>>
       \/ /\ Return("backup_failed")
          /\ UNCHANGED fs
    /\ UNCHANGED <<fixedV05, clock, answer, metadata, newmeta, clean_base,
                   new_path, probed, others, text, before, raced>>

\* A final move whose failure is passed over, so that the backup is removed
\* all the same
V05FinalMoveUnchecked ==
    /\ pc = "v_final"
    /\ \/ /\ CanRename(TempV05(pdf_path), new_path)
          /\ ~ExistsRaises(new_path)
          /\ fs' = Moved(fs, TempV05(pdf_path), new_path)
       \/ UNCHANGED fs
    /\ pc' = "v_remove"
    /\ UNCHANGED <<fixedV05, clock, answer, metadata, newmeta, clean_base,
                   new_path, probed, others, text, before, raced, idx, result>>

\* os.rename(temp_pdf_path, new_file_path)
V05FinalMove ==
    /\ pc = "v_final"
    /\ \/ /\ CanRename(TempV05(pdf_path), new_path)
          /\ ~ExistsRaises(new_path)
          /\ fs' = Moved(fs, TempV05(pdf_path), new_path)
          /\ pc' = "v_remove"
          /\ UNCHANGED <<idx, result>>
       \/ /\ Return("final_failed")
          /\ UNCHANGED fs
    /\ UNCHANGED <<fixedV05, clock, answer, metadata, newmeta, clean_base,
                   new_path, probed, others, text, before, raced>>

\* os.remove(pdf_path + ".bak")
V05RemoveBackup ==
    /\ pc = "v_remove"
    /\ \/ /\ Exists(BackupV05(pdf_path))
          /\ fs' = Removed(fs, BackupV05(pdf_path))
          /\ Return("renamed")
       \/ /\ Return("remove_failed")
          /\ UNCHANGED fs
    /\ UNCHANGED <<fixedV05, clock, answer, metadata, newmeta, clean_base,
                   new_path, probed, others, text, before, raced>>

\* Another instance of the script takes the name this one has resolved
V05OtherInstance ==
    /\ pc \in {"v_find", "v_read", "v_open", "v_write", "v_backup", "v_final"}
    /\ others < MaxOther
    /\ ~Exists(new_path)
    /\ ~ExistsRaises(new_path)
    /\ fs' = Written(fs, new_path, File(OtherDocs[others + 1], Original, clock + 1))
    /\ answer' = [answer EXCEPT ![OtherDocs[others + 1]] = answer[text]]
    /\ clock' = clock + 1
    /\ others' = others + 1
    /\ raced' = (raced \/ pc # "v_find")
    /\ UNCHANGED <<fixedV05, pc, idx, metadata, newmeta, clean_base, new_path,
                   probed, text, before, result>>

NextV05 ==
    \/ V05NextPdf
    \/ V05Extract
    \/ V05Guess
    \/ V05Parse
    \/ V05Find
    \/ V05Read
    \/ V05Open
    \/ V05Write
    \/ V05Backup
    \/ V05FinalMove
    \/ V05RemoveBackup
    \/ V05OtherInstance

SpecV05 == InitV05 /\ [][NextV05]_vars

-----------------------------------------------------------------------------
(* The batch over a directory that holds a file under a temporary name *)

\* a.pdf and a.temp.pdf, two documents, either one the newer
CrowdedDirs ==
    LET a == <<"a">> \o PdfExt
        t == TempPath(a)
    IN  { [n \in {a, t} |-> IF n = a THEN File("dA", Original, m)
                            ELSE File("dB", Original, 3 - m)] : m \in 1..2 }

InitCrowded ==
    /\ fs \in CrowdedDirs
    /\ clock = 2
    /\ platform \in {"posix", "windows"}
    /\ answer \in InitAnswers
    /\ \A d \in Docs : answer[d] \in RerunAnswers
    /\ pdf_files = Listing(fs)
    /\ idx = 1
    /\ run = 1
    /\ pc = "loop"
    /\ Idle
    /\ others = 0
    /\ before = fs
    /\ result = "none"
    /\ raced = FALSE
    /\ given = [d \in Docs |-> NoName]
    /\ NoCall

SpecCrowded == InitCrowded /\ [][Next]_vars

-----------------------------------------------------------------------------
(* clean_filename alone, over short strings *)

\* the longest string clean_filename is called with
MaxRawLen == 3
\* clean_filename is applied to its own result at most this many times in all
MaxCalls == 2

\* A letter, a blank, and characters illegal in file names: the asterisk, the
\* slash and the backslash
CleanAlphabet == {"a", " ", "*", "/", "\\"}

\* The strings clean_filename is called with
CleanInputs ==
    UNION { [1..n -> CleanAlphabet] : n \in 0..MaxRawLen }

\* The maximum lengths it is called with: the default and the short ones
CleanLengths == (0..MaxRawLen) \cup {DefaultMaxLength}

InitClean ==
    /\ fs = <<>>
    /\ clock = 1
    /\ platform \in {"posix", "windows"}
    /\ answer = [d \in AllDocs |-> Garbage]
    /\ pdf_files = <<>>
    /\ idx = 1
    /\ run = 1
    /\ pc = "clean"
    /\ Idle
    /\ others = 0
    /\ before = fs
    /\ result = "none"
    /\ raced = FALSE
    /\ given = [d \in Docs |-> NoName]
    /\ arg_raw \in CleanInputs
    /\ arg_max_length \in CleanLengths
    /\ returned = <<>>

\* One call of clean_filename: with the string given, and then with what the
\* call before returned
CleanFilename ==
    /\ pc = "clean"
    /\ Len(returned) < MaxCalls
    /\ returned' = Append(returned,
                          clean_filename(IF returned = <<>> THEN arg_raw
                                         ELSE returned[Len(returned)],
                                         arg_max_length))
    /\ UNCHANGED <<fs, clock, platform, answer, pdf_files, idx, run, pc,
                   attempt, metadata, newmeta, clean_base, new_path, counter,
                   probed, updated, others, text, before, result, raced,
                   given, arg_raw, arg_max_length>>

NextClean == CleanFilename

SpecClean == InitClean /\ [][NextClean]_vars

-----------------------------------------------------------------------------
(* find_unique_pdf_path alone, over directories of suffixed names *)

\* The base names it is tried with: "x", "x_1" (whose first candidate is the
\* second of "x") and a name too long for the file system
FindBases == { <<"x">>, <<"x","_","1">>, tLongTitle }

\* The names the directories are made of
FindNames ==
    { Candidate(b, k) : b \in { <<"x">>, <<"x","_","1">> }, k \in 0..MaxSuffix }

FindDirs ==
    { [n \in S |-> File("dA", Original, 1)] : S \in SUBSET FindNames }

\* rename_pdf has just called find_unique_pdf_path(pdf_path, clean_base)
InitFind ==
    /\ fs \in FindDirs
    /\ clock = 1
    /\ platform \in {"posix", "windows"}
    /\ answer = [d \in AllDocs |-> Garbage]
    /\ pdf_files = <<>>
    /\ idx = 1
    /\ run = 1
    /\ pc = "find"
    /\ attempt = 0
    /\ metadata = NoMetadata
    /\ newmeta = Original
    /\ clean_base \in FindBases
    /\ new_path = Candidate(clean_base, 0)
    /\ counter = 1
    /\ probed = <<>>
    /\ updated = FALSE
    /\ others = 0
    /\ text = "none"
    /\ before = fs
    /\ result = "none"
    /\ raced = FALSE
    /\ given = [d \in Docs |-> NoName]
    /\ NoCall

NextFind == FindUnique

SpecFind == InitFind /\ [][NextFind]_vars

\* base.pdf and base_N.pdf, as the claim writes them
ClaimedName(base, n) ==
    IF n = 0 THEN base \o <<".","p","d","f">>
    ELSE base \o <<"_">> \o NatStr(n) \o <<".","p","d","f">>

\* The directory holds base.pdf, base_1.pdf, ..., base_(n-1).pdf and no
\* base_n.pdf
HoldsUpTo(base, n) ==
    /\ \A k \in 0..(n - 1) : Exists(ClaimedName(base, k))
    /\ ~Exists(ClaimedName(base, n))

\* C7: when the directory holds base.pdf, base_1.pdf, ..., base_(N-1).pdf
\* and no base_N.pdf, find_unique_pdf_path returns base_N.pdf (base.pdf for
\* N = 0), having probed base.pdf, base_1.pdf, ..., base_N.pdf in this order.
C7_ResolverReturnsFirstFree ==
    pc = "rename" =>
        \A n \in 0..(MaxSuffix + 1) :
            HoldsUpTo(clean_base, n) =>
                /\ new_path = ClaimedName(clean_base, n)
                /\ probed = [k \in 1..(n + 1) |-> ClaimedName(clean_base, k - 1)]

\* C7: the resolver has returned x_2.pdf from a directory with x.pdf and
\* x_1.pdf
C7_Witness ==
    /\ pc = "rename"
    /\ clean_base = <<"x">>
    /\ HoldsUpTo(clean_base, 2)
    /\ new_path = <<"x","_","2",".","p","d","f">>
    /\ Len(probed) = 3

-----------------------------------------------------------------------------
(* Claims about the current script (Spec, SpecRerun) *)

\* process_pdf has returned from its last two steps, the rewrite and the rename
CommitReturned == pc = "loop" /\ result \in {"renamed", "rename_failed"}

\* The path of the document process_pdf has just returned from
LastPath == pdf_files[idx - 1]

\* The file holds this document as update_pdf_metadata's result says: rewritten
\* whole if it returned True, as it was if it returned False
AsUpdateSays(f) ==
    IF updated THEN f.doc = text /\ f.meta = NewMetadata(metadata)
    ELSE f = before[LastPath]

OtherFilesIntact ==
    \A k \in 1..others : \E n \in DOMAIN fs : fs[n].doc = OtherDocs[k]

\* C5, as claimed: when the other instance takes the path the resolver
\* returned before the final move, the file it put there is not overwritten
\* and this document is still renamed (the caller resolves a new name and
\* tries again).
C5_RaceRetried ==
    (pc = "loop" /\ raced) =>
        /\ OtherFilesIntact
        /\ platform = "windows" => result = "renamed"

\* C6, as claimed: a file the first run renamed keeps that name in every
\* later run of the batch.
C6_RenamedStay ==
    \A d \in Docs :
        given[d] # NoName => Exists(given[d]) /\ fs[given[d]].doc = d

Fields == {"author", "title", "pubdate"}

\* An object whose three fields are all text
AllText(a) == a.kind = "object" /\ \A k \in Fields : a.val[k].t = "str"

\* The record names a sentinel, compared ignoring case
SentinelAsClaimed(a) ==
    \/ Lower(a.val.title.v) = tunknown
    \/ Lower(a.val.author.v) \in {tunknown, tvarious}

\* The record names a sentinel, compared ignoring case and the whitespace
\* around the value
SentinelTrimmed(a) ==
    \/ Lower(Strip(a.val.title.v)) = tunknown
    \/ Lower(Strip(a.val.author.v)) \in {tunknown, tvarious}

\* The document was skipped for its metadata: nothing rewritten, nothing
\* renamed, no file name built
Rejected ==
    /\ pc \in {"loop", "finished"}
    /\ result = "no_metadata"
    /\ fs = before
    /\ clean_base = NoName

\* C8, as claimed: a record of three text fields is rejected when its title
\* is "unknown" or its author "unknown" or "various", ignoring case, and
\* accepted otherwise (it is skipped only when every attempt of the call
\* failed).
C8_ValidatorAsClaimed ==
    (text # "none" /\ AllText(answer[text])) =>
        /\ SentinelAsClaimed(answer[text]) => pc = "query" \/ Rejected
        /\ (~SentinelAsClaimed(answer[text]) /\ result = "no_metadata")
              => attempt = Retries

\* C8, amended: a record of three text fields is rejected when its title is
\* "unknown" or its author "unknown" or "various", ignoring case and the
\* whitespace around the value, and accepted otherwise.
C8_ValidatorTrimmed ==
    (text # "none" /\ AllText(answer[text])) =>
        /\ SentinelTrimmed(answer[text]) => pc = "query" \/ Rejected
        /\ (~SentinelTrimmed(answer[text]) /\ result = "no_metadata")
              => attempt = Retries

\* C8: a title of " Unknown " was rejected at the first attempt
C8_Witness ==
    /\ text # "none"
    /\ answer[text] = Object(mPadded)
    /\ Rejected
    /\ attempt = 0

\* An object in which a required field is absent or is no text
Incomplete(a) == a.kind = "object" /\ \E k \in Fields : a.val[k].t # "str"

\* C9, as claimed: a record in which author, title or pubdate is absent or no
\* text is rejected: nothing is rewritten or renamed and no file name is
\* built from a default.
C9_IncompleteRejected ==
    (text # "none" /\ Incomplete(answer[text])) => pc = "query" \/ Rejected

\* C10, as claimed: no failure of one document's step ends the batch before
\* the loop has reached every document of the listing.
C10_BatchNeverAborts == pc # "aborted"

-----------------------------------------------------------------------------
(* The commit of version 0.5: temporary file, backup, final move *)

\* The positions between the steps of version 0.5
StepsV05 ==
    {"v_extract", "v_guess", "v_parse", "v_find", "v_read", "v_open",
     "v_write", "v_backup", "v_final", "v_remove"}

\* The path of the document in hand: being processed, or just returned from
InHand == IF pc = "loop" THEN LastPath ELSE pdf_path

\* The files holding the document in hand under its original path or under
\* the target path
UnderExpectedName ==
    {n \in {InHand, new_path} : Exists(n) /\ fs[n].doc = before[InHand].doc}

\* C1, as claimed: between any two steps of a document's processing, and after
\* any failed step, exactly one file holds the document under its original
\* path or the target path (never none), and once the processing has returned
\* no temporary file of it is left.
C1_OneFileNoTemp ==
    (pc \in StepsV05 \/ (pc = "loop" /\ result # "none")) =>
        /\ Cardinality(UnderExpectedName) = 1
        /\ pc = "loop" => ~Exists(TempV05(InHand))

\* C3, as claimed: when the final move has failed and the commit has returned,
\* the original is at its starting path with its starting content and no file
\* is left under the backup name.
C3_FinalMoveFailureRestores ==
    (pc = "loop" /\ result = "final_failed") =>
        /\ Exists(LastPath)
        /\ fs[LastPath] = before[LastPath]
        /\ ~Exists(BackupV05(LastPath))

\* C4, as claimed: when the write of the temporary file or the move to the
\* backup name has failed and the commit has returned, the original is at its
\* path with unchanged content and no temporary file remains.
C4_EarlyFailureNoChange ==
    (pc = "loop" /\ result \in {"write_failed", "backup_failed"}) =>
        /\ Exists(LastPath)
        /\ fs[LastPath] = before[LastPath]
        /\ ~Exists(TempV05(LastPath))

-----------------------------------------------------------------------------
(* Documents that are skipped *)

\* The processing of the last document ended before any rewrite began: no
\* text, no answer, an answer that does not parse, or a rejected record
Skipped ==
    /\ pc = "loop"
    /\ result \in {"no_text", "no_metadata", "api_failed", "parse_error",
                   "unreliable"}

\* C11: when text extraction returns nothing, the inference fails or returns
\* nothing, or the record is rejected, the directory is exactly as it was when
\* the processing of the document began: the file at the same path with the
\* same content, and no temporary or backup file created.
C11_SkippedUntouched == Skipped => fs = before

\* A document whose answer held a sentinel was skipped
C11_Witness ==
    /\ Skipped
    /\ text \in Docs
    /\ answer[text].kind = "object"
    /\ FieldCheck(answer[text]) = "none"
    /\ Exists(LastPath)

-----------------------------------------------------------------------------
(* Claims about clean_filename (SpecClean) *)

\* "empty_file_", the beginning of the fallback name
FallbackPrefix == <<"e","m","p","t","y","_","f","i","l","e","_">>

StartsWith(s, t) == Len(s) >= Len(t) /\ SubSeq(s, 1, Len(t)) = t

\* The string is empty or made of illegal characters only
NothingLegal(s) == \A i \in DOMAIN s : s[i] \in Forbidden

\* C12, as claimed: whatever string clean_filename is called with (and a
\* maximum length of at least one), what it returns is not empty, and for the
\* empty string and for a string of illegal characters only it returns a
\* fallback that begins with empty_file_.
C12_NeverEmpty ==
    (returned # <<>> /\ arg_max_length >= 1) =>
        /\ returned[1] # <<>>
        /\ NothingLegal(arg_raw) => StartsWith(returned[1], FallbackPrefix)

\* The slash, the backslash and : * ? " < > |
Illegal == Forbidden \cup {"\\"}

\* C13, as claimed: what clean_filename returns holds no slash, no backslash
\* and none of : * ? " < > |.
C13_NoIllegalCharacter ==
    \A k \in DOMAIN returned :
        \A i \in DOMAIN returned[k] : returned[k][i] \notin Illegal

\* C14: what clean_filename returns is at most max_length characters long.
C14_AtMostMaxLength ==
    \A k \in DOMAIN returned : Len(returned[k]) <= arg_max_length

\* clean_filename has returned a name it had to cut to max_length
C14_Witness ==
    /\ returned # <<>>
    /\ Len(Remove(arg_raw, Forbidden)) > arg_max_length
    /\ arg_max_length >= 1
    /\ Len(returned[1]) = arg_max_length

\* C15: clean_filename applied to what it returned, with the same maximum
\* length, returns the same string.
C15_Idempotent ==
    Len(returned) >= 2 => returned[2] = returned[1]

\* clean_filename was applied twice to a string that the first call cut and
\* then stripped of the blank the cut had left at its end
C15_Witness ==
    /\ Len(returned) = 2
    /\ returned[1] # <<>>
    /\ Len(Remove(arg_raw, Forbidden)) > arg_max_length
    /\ Len(returned[1]) < arg_max_length

-----------------------------------------------------------------------------
(* The backup of version 0.5 (SpecV05) *)

\* os.remove(pdf_path + ".bak") has succeeded: the one place the backup is
\* deleted, after which the function returns new_file_path
BackupDeleted == pc = "loop" /\ result = "renamed"

\* The file of this name holds the document in hand, whole: as it was, or
\* rewritten
HoldsWhole(n) ==
    /\ Exists(n)
    /\ fs[n].doc = text
    /\ fs[n].meta \in {before[InHand].meta, newmeta}
    /\ fs[n].meta # Partial

\* The rewritten document is at the target path
AtTarget ==
    /\ Exists(new_path)
    /\ fs[new_path].doc = text
    /\ fs[new_path].meta = newmeta
    /\ newmeta # Original

\* C16: in every state in which the backup has been deleted the rewritten
\* document is at the target path, and in every state of a document's
\* processing some file of the directory holds the document whole.
C16_BackupDeletedAfterMove ==
    /\ BackupDeleted => AtTarget
    /\ (text # "none" /\ (pc \in StepsV05 \/ pc = "loop")) =>
           \E n \in DOMAIN fs : HoldsWhole(n)

\* The backup was deleted after the final move: the document is at the target
\* path only
C16_Witness ==
    /\ BackupDeleted
    /\ AtTarget
    /\ ~Exists(LastPath)
    /\ ~Exists(BackupV05(LastPath))
    /\ ~Exists(TempV05(LastPath))

\* None, what rename_pdf_based_on_title returns for a document without text or
\* without an answer
None == <<"None">>

\* What rename_pdf_based_on_title returned for the last document
ReturnedV05 ==
    IF result = "renamed" THEN new_path
    ELSE IF result \in {"no_text", "api_failed"} THEN None
    ELSE LastPath

\* C17, as claimed: when the final move has succeeded and only the deletion of
\* the backup has failed (the rewritten document is at the target path and the
\* backup is still in the directory), the function returns the new path, as
\* for a successful rename.
C17_RemoveFailureIsSuccess ==
    (pc = "loop" /\ text # "none" /\ AtTarget /\ Exists(BackupV05(LastPath))) =>
        ReturnedV05 = new_path

-----------------------------------------------------------------------------
(* The attempts of query_llm_for_metadata (Spec) *)

\* process_pdf returns without a record: the document is skipped, its file
\* and the directory are as they were, and the loop takes the next file
SkippedNow ==
    /\ pc' = "loop"
    /\ result' = "no_metadata"
    /\ idx' = idx + 1
    /\ fs' = fs
    /\ fs = before

\* C18: every attempt of the inference for one document leaves the number of
\* failed attempts at most Retries; the attempt that makes it Retries (a call
\* error or a payload that does not parse) ends with no record, the document
\* skipped, its file unchanged and the batch at its next file; and an attempt
\* that does not fail and finds a sentinel ends the same way at once.
C18_AttemptsBounded ==
    [][pc = "query" =>
          /\ attempt' <= Retries
          /\ attempt' = Retries => SkippedNow
          /\ (attempt' = attempt /\ FieldCheck(answer[text]) = "none")
                 => SkippedNow]_vars

\* The inference failed Retries times and the document was skipped
C18_Witness ==
    /\ pc = "loop"
    /\ result = "no_metadata"
    /\ attempt = Retries
    /\ text \in Docs
    /\ fs = before

-----------------------------------------------------------------------------
(* The other files of the directory (SpecCrowded) *)

\* A document of the listing is being processed, or its processing has just
\* ended
InProcessing ==
    \/ pc \in {"extract", "query", "update_read", "update_open",
               "update_write", "update_replace", "find", "rename"}
    \/ pc = "loop" /\ result # "none"

\* C19, as claimed: while one document is processed and when its processing
\* has ended, every other file that was in the directory when the processing
\* began is still there, under its name and with its content: the temporary
\* path and the rename target are never the path of another file.
C19_OtherFilesUntouched ==
    InProcessing =>
        \A n \in DOMAIN before :
            n # InHand => (Exists(n) /\ fs[n] = before[n])

====
